---- MODULE Spec2Model ----
(***************************************************************************)
(* The charge-gated, cache-aside image generation workers of stripe-image. *)
(*                                                                         *)
(* Four request handlers are modelled:                                     *)
(*   "path"  src/main.ts:303-666      /image/prompt[/size][/quality],      *)
(*                                    /cost/..., backed by the R2 bucket   *)
(*   "q0"    src/unnamed/part_000     ?prompt=&size=&quality=&n=  (JSON)   *)
(*   "q1"    src/unnamed/part_001     the same, HTML/Markdown responses    *)
(*   "q2"    src/main.ts:833-1100     the same, images uploaded to R2      *)
(*                                                                         *)
(* Every call of a collaborator that a handler awaits is a step of its     *)
(* own, and the code up to the next such call runs inside the step; the    *)
(* reading of a response body belongs to the step of its fetch.  The R2    *)
(* bucket, the account balance (stripeflare's ctx.charge), the OpenAI      *)
(* endpoint and the fetch of a remote image are collaborators whose        *)
(* results are chosen nondeterministically among the results they can      *)
(* give.  Each request keeps the log of the calls it made.                 *)
(***************************************************************************)
EXTENDS Integers, Sequences, FiniteSets, TLC

(***************************************************************************)
(* Bounds of the model.                                                    *)
(***************************************************************************)
\* Initial balances are drawn from 0..MaxBalance (cents).
MaxBalance == 5

None == "none"

(***************************************************************************)
(* Numbers.  A number of the program is an IEEE 754 double: the cost model *)
(* divides, multiplies and adds doubles, and each of these operations      *)
(* rounds its exact result to the nearest double, ties to even.  A double  *)
(* >= 0 is the record [m, e] that stands for m * 2^e with m odd (m = 0 for *)
(* zero); m is a natural number of up to 53 bits, kept as the sequence of  *)
(* its digits in base 2^LimbBits, least significant first, because the     *)
(* integers of the checker have 32 bits.  The values of the cost model are *)
(* far from the subnormal range and from overflow.                         *)
(***************************************************************************)
LimbBits == 10
Base == 2 ^ LimbBits

\* The element of a singleton.  The({e : x \in {v}}) is e with x standing
\* for the value of v, which is computed once.
The(S) == CHOOSE y \in S : TRUE

LimbAt(a, i) == IF i >= 1 /\ i <= Len(a) THEN a[i] ELSE 0

RECURSIVE NOfInt(_)
NOfInt(n) == IF n = 0 THEN << >> ELSE <<n % Base>> \o NOfInt(n \div Base)

RECURSIVE NToIntFrom(_, _)
NToIntFrom(x, i) == IF i > Len(x) THEN 0 ELSE x[i] + Base * NToIntFrom(x, i + 1)
NToInt(a) == The({NToIntFrom(x, 1) : x \in {a}})

\* a without its leading zero digits
NTrim(a) ==
  The({SubSeq(x, 1, CHOOSE n \in 0..Len(x) :
                      /\ n = 0 \/ x[n] # 0
                      /\ \A k \in (n + 1)..Len(x) : x[k] = 0) : x \in {a}})

RECURSIVE NAddFrom(_, _, _, _)
NAddFrom(x, y, i, c) ==
  IF i > Len(x) /\ i > Len(y)
  THEN IF c = 0 THEN << >> ELSE <<c>>
  ELSE <<(LimbAt(x, i) + LimbAt(y, i) + c) % Base>>
       \o NAddFrom(x, y, i + 1, (LimbAt(x, i) + LimbAt(y, i) + c) \div Base)
NAdd(a, b) == The({NAddFrom(x, y, 1, 0) : x \in {a}, y \in {b}})

RECURSIVE NScaleFrom(_, _, _, _)
NScaleFrom(x, k, i, c) ==
  IF i > Len(x)
  THEN NOfInt(c)
  ELSE <<(x[i] * k + c) % Base>> \o NScaleFrom(x, k, i + 1, (x[i] * k + c) \div Base)
\* a * k for a factor 0 < k <= Base
NScale(a, k) == The({NScaleFrom(x, f, 1, 0) : x \in {a}, f \in {k}})

\* a * Base
NShiftLimb(a) == The({IF x = << >> THEN x ELSE <<0>> \o x : x \in {a}})

RECURSIVE NMulFrom(_, _, _)
NMulFrom(x, y, j) ==
  IF j > Len(y) THEN << >>
  ELSE NAdd(IF y[j] = 0 THEN << >> ELSE NScale(x, y[j]), NShiftLimb(NMulFrom(x, y, j + 1)))
NMul(a, b) == The({NMulFrom(x, y, 1) : x \in {a}, y \in {b}})

\* a * 2^d
NShl(a, d) ==
  The({IF x = << >> THEN x
       ELSE [i \in 1..(s \div LimbBits) |-> 0] \o NScale(x, 2 ^ (s % LimbBits))
       : x \in {a}, s \in {d}})

\* floor(a / 2^d)
NShr(a, d) ==
  The({NTrim([i \in 1..(IF Len(x) > l THEN Len(x) - l ELSE 0) |->
                (LimbAt(x, i + l) \div (2 ^ s))
                + (LimbAt(x, i + l + 1) % (2 ^ s)) * (2 ^ (LimbBits - s))])
       : x \in {a}, l \in {d \div LimbBits}, s \in {d % LimbBits}})

\* a mod 2^d = 0
NLowZero(a, d) ==
  /\ \A i \in 1..(d \div LimbBits) : LimbAt(a, i) = 0
  /\ LimbAt(a, d \div LimbBits + 1) % (2 ^ (d % LimbBits)) = 0

\* bit d of a, the least significant bit being bit 1
NBit(a, d) == (LimbAt(a, (d - 1) \div LimbBits + 1) \div (2 ^ ((d - 1) % LimbBits))) % 2

NBitLen(a) ==
  IF a = << >> THEN 0
  ELSE (Len(a) - 1) * LimbBits
       + (CHOOSE n \in 1..LimbBits : 2 ^ (n - 1) <= a[Len(a)] /\ a[Len(a)] < 2 ^ n)

\* Long division by a divisor below 2^21, from the top digit x[i] down; r
\* is the remainder so far.
RECURSIVE NDivFrom(_, _, _, _)
NDivFrom(x, b, i, r) ==
  IF i = 0 THEN [q |-> << >>, r |-> r]
  ELSE The({[q |-> Append(low.q, (r * Base + x[i]) \div b), r |-> low.r]
            : low \in {NDivFrom(x, b, i - 1, (r * Base + x[i]) % b)}})
NDiv(a, b) ==
  The({[q |-> NTrim(d.q), r |-> d.r] : d \in {NDivFrom(x, b, Len(x), 0) : x \in {a}}})

Zero == [m |-> << >>, e |-> 0]
\* The significand of a double has 53 bits.
MantissaBits == 53

\* N * 2^e with N brought to an odd number.
Normal(N, e) ==
  The({IF n = << >> THEN Zero
       ELSE The({[m |-> NShr(n, z), e |-> e + z]
                 : z \in {CHOOSE d \in 0..NBitLen(n) : NLowZero(n, d) /\ ~NLowZero(n, d + 1)}})
       : n \in {N}})

\* The double nearest to the exact value, ties to even; the exact value is
\* N * 2^e when sticky is false and lies strictly between N * 2^e and
\* (N + 1) * 2^e when it is true.
RoundToDouble(N, e, sticky) ==
  The({IF d <= 0 THEN Normal(n, e)
       ELSE The({Normal(IF /\ NBit(n, d) = 1
                           /\ (sticky \/ ~NLowZero(n, d - 1) \/ NBit(kept, 1) = 1)
                        THEN NAdd(kept, <<1>>) ELSE kept, e + d)
                 : kept \in {NShr(n, d)}})
       : <<n, d>> \in {<<n0, NBitLen(n0) - MantissaBits>> : n0 \in {N}}})

\* The quotient of two integers is developed to this many binary places
\* before it is rounded: with a divisor below 2^21 it then has more than 53
\* significant bits whenever it is not exact.
DivisionBits == 80

\* a / b for integers a >= 0 and 0 < b < 2^21; also the double that the
\* decimal literal a/b denotes, 0.011 being DDivInt(11, 1000).
DDivInt(a, b) ==
  The({RoundToDouble(d.q, 0 - DivisionBits, d.r # 0)
       : d \in {NDiv(NShl(NOfInt(a), DivisionBits), b)}})

DOfInt(n) == Normal(NOfInt(n), 0)
DMul(x, y) ==
  The({RoundToDouble(NMul(u.m, v.m), u.e + v.e, FALSE) : u \in {x}, v \in {y}})
DAdd(x, y) ==
  The({IF u.m = << >> THEN v
       ELSE IF v.m = << >> THEN u
       ELSE The({RoundToDouble(NAdd(NShl(u.m, u.e - e), NShl(v.m, v.e - e)), e, FALSE)
                 : e \in {IF u.e < v.e THEN u.e ELSE v.e}})
       : u \in {x}, v \in {y}})

\* The least integer >= N * 2^e.
CeilOf(N, e) ==
  The({IF n = << >> THEN 0
       ELSE IF e >= 0 THEN NToInt(NShl(n, e))
       ELSE NToInt(NShr(n, 0 - e)) + (IF NLowZero(n, 0 - e) THEN 0 ELSE 1)
       : n \in {N}})
\* Math.ceil
DCeil(x) == The({CeilOf(u.m, u.e) : u \in {x}})

CeilDiv(a, b) == (a + b - 1) \div b

(***************************************************************************)
(* PRICING, src/main.ts:42-74, in dollars.                                 *)
(***************************************************************************)
PER_1M == 1000000
TEXT_INPUT_PER_1M == DOfInt(5)
TEXT_INPUT_CACHED_PER_1M == DDivInt(125, 100)
IMAGE_INPUT_PER_1M == DOfInt(10)

\* Variant of OUTPUT_COSTS: auto has the prices of medium.
OUTPUT_COSTS_AutoMedium ==
  [ low    |-> [ s1024x1024 |-> DDivInt(11, 1000),  s1024x1536 |-> DDivInt(16, 1000),
                 s1536x1024 |-> DDivInt(16, 1000) ],
    medium |-> [ s1024x1024 |-> DDivInt(42, 1000),  s1024x1536 |-> DDivInt(63, 1000),
                 s1536x1024 |-> DDivInt(63, 1000) ],
    high   |-> [ s1024x1024 |-> DDivInt(167, 1000), s1024x1536 |-> DDivInt(25, 100),
                 s1536x1024 |-> DDivInt(25, 100) ],
    auto   |-> [ s1024x1024 |-> DDivInt(42, 1000),  s1024x1536 |-> DDivInt(63, 1000),
                 s1536x1024 |-> DDivInt(63, 1000) ] ]

OUTPUT_COSTS ==
  [ low    |-> [ s1024x1024 |-> DDivInt(11, 1000),  s1024x1536 |-> DDivInt(16, 1000),
                 s1536x1024 |-> DDivInt(16, 1000) ],
    medium |-> [ s1024x1024 |-> DDivInt(42, 1000),  s1024x1536 |-> DDivInt(63, 1000),
                 s1536x1024 |-> DDivInt(63, 1000) ],
    high   |-> [ s1024x1024 |-> DDivInt(167, 1000), s1024x1536 |-> DDivInt(25, 100),
                 s1536x1024 |-> DDivInt(25, 100) ],
    auto   |-> [ s1024x1024 |-> DDivInt(167, 1000), s1024x1536 |-> DDivInt(25, 100),
                 s1536x1024 |-> DDivInt(25, 100) ] ]

\* FEE_PERCENTAGE_PER_IMAGE: 0.1
FEE_PERCENTAGE_PER_IMAGE == DDivInt(1, 10)
CentsPerDollar == 100
CharsPerToken == 4

\* The keys of the size columns: a record field cannot be named 1024x1024.
SizeKey(size) ==
  CASE size = "1024x1024" -> "s1024x1024"
    [] size = "1024x1536" -> "s1024x1536"
    [] size = "1536x1024" -> "s1536x1024"
    [] OTHER -> None

\* String.prototype.toLowerCase on the quality strings of the model.
ToLowerCase(s) ==
  CASE s = "LOW" -> "low"
    [] s = "High" -> "high"
    [] OTHER -> s

\* Variant of estimateTextTokens: Math.floor in place of Math.ceil.
estimateTextTokens_Floor(text) == Len(text) \div CharsPerToken

\* Math.ceil(text.length / 4): the division by 4 is exact.
estimateTextTokens(text) == CeilDiv(Len(text), CharsPerToken)

\* obj[key] finds the members every object inherits from Object.prototype
\* as well as the object's own: "constructor" is one of them, and its
\* value is a function.
ObjectPrototypeKeys == {"constructor"}
\* The value of a member: a number, a function, or undefined.
NumberValue(x) == [kind |-> "number", value |-> x]
InheritedFunction == [kind |-> "function", value |-> Zero]
Undefined == [kind |-> "undefined", value |-> Zero]

\* PRICING.OUTPUT_COSTS[normalizedQuality] &&
\* PRICING.OUTPUT_COSTS[normalizedQuality][size]: a price of the table, a
\* member inherited by a row of the table (or by the inherited member that
\* was taken for a row), or nothing.
OutputCostLookup(quality, size) ==
  LET nq == ToLowerCase(quality)
      sk == SizeKey(size)
  IN  IF nq \in DOMAIN OUTPUT_COSTS /\ sk \in DOMAIN OUTPUT_COSTS[nq]
      THEN NumberValue(OUTPUT_COSTS[nq][sk])
      ELSE IF (nq \in DOMAIN OUTPUT_COSTS \/ nq \in ObjectPrototypeKeys)
              /\ size \in ObjectPrototypeKeys
      THEN InheritedFunction
      ELSE Undefined

\* let imageOutputCost = 0; if (the lookup is truthy) imageOutputCost = it
OutputCost(quality, size) ==
  The({IF found.kind = "undefined" THEN NumberValue(Zero) ELSE found
       : found \in {OutputCostLookup(quality, size)}})

\* What a call of calculateImageGenerationCost gives when it throws.
TypeError == [threw |-> TRUE]

\* The sub-costs of calculateImageGenerationCost, src/main.ts:135-156.
\* Variant of textInputCostOf: the cached tokens are priced on top of the
\* tokens of the prompt.
textInputCostOf_Both(textInputTokens, cachedInputTokens) ==
  DAdd(DMul(DDivInt(cachedInputTokens, PER_1M), TEXT_INPUT_CACHED_PER_1M),
       DMul(DDivInt(textInputTokens, PER_1M), TEXT_INPUT_PER_1M))

textInputCostOf(textInputTokens, cachedInputTokens) ==
  IF cachedInputTokens > 0
  THEN DMul(DDivInt(cachedInputTokens, PER_1M), TEXT_INPUT_CACHED_PER_1M)
  ELSE DMul(DDivInt(textInputTokens, PER_1M), TEXT_INPUT_PER_1M)
imageInputCostOf(inputImageTokens) ==
  IF inputImageTokens > 0
  THEN DMul(DDivInt(inputImageTokens, PER_1M), IMAGE_INPUT_PER_1M)
  ELSE Zero

\* Variant of calculateImageGenerationCost: Math.floor in place of Math.ceil.
calculateImageGenerationCost_Floor(prompt, size, quality, inputImageTokens, cachedInputTokens) ==
  The({IF imageOutputCost.kind # "number"
       THEN TypeError
       ELSE [ threw            |-> FALSE,
              textInputTokens  |-> textInputTokens,
              textInputCost    |-> textInputCost,
              imageInputTokens |-> inputImageTokens,
              imageInputCost   |-> imageInputCost,
              imageOutputCost  |-> imageOutputCost.value,
              totalCostInCents |->
                The({IF cents.e >= 0 THEN NToInt(NShl(cents.m, cents.e))
                     ELSE NToInt(NShr(cents.m, 0 - cents.e))
                     : cents \in {DMul(DMul(DAdd(DAdd(textInputCost, imageInputCost),
                                                 imageOutputCost.value),
                                            FEE_PERCENTAGE_PER_IMAGE),
                                       DOfInt(CentsPerDollar))}}) ]
       : textInputTokens \in {estimateTextTokens(prompt)},
         textInputCost \in {textInputCostOf(estimateTextTokens(prompt), cachedInputTokens)},
         imageInputCost \in {imageInputCostOf(inputImageTokens)},
         imageOutputCost \in {OutputCost(quality, size)}})

\* src/main.ts:119-189.  With an inherited function for imageOutputCost the
\* total is NaN and imageOutputCost.toFixed(5), in the breakdown, throws a
\* TypeError.
calculateImageGenerationCost(prompt, size, quality, inputImageTokens, cachedInputTokens) ==
  The({IF imageOutputCost.kind # "number"
       THEN TypeError
       ELSE [ threw            |-> FALSE,
              textInputTokens  |-> textInputTokens,
              textInputCost    |-> textInputCost,
              imageInputTokens |-> inputImageTokens,
              imageInputCost   |-> imageInputCost,
              imageOutputCost  |-> imageOutputCost.value,
              totalCostInCents |->
                \* totalCostInDollars = (the three sub-costs) * feePercentage
                DCeil(DMul(DMul(DAdd(DAdd(textInputCost, imageInputCost),
                                     imageOutputCost.value),
                                FEE_PERCENTAGE_PER_IMAGE),
                           DOfInt(CentsPerDollar))) ]
       : textInputTokens \in {estimateTextTokens(prompt)},
         textInputCost \in {textInputCostOf(estimateTextTokens(prompt), cachedInputTokens)},
         imageInputCost \in {imageInputCostOf(inputImageTokens)},
         imageOutputCost \in {OutputCost(quality, size)}})

(***************************************************************************)
(* parseImagePath, src/main.ts:276-301.  A pathname is the sequence of the *)
(* segments that follow its leading slash: /image/cat is <<"image","cat">>,*)
(* /image//cat is <<"image","","cat">>, / is << >>.                        *)
(***************************************************************************)
DEFAULT_SIZE == "1024x1024"
DEFAULT_QUALITY == "low"

\* decodeURIComponent on the prompts of the model; "%" alone is malformed.
DecodeThrows(s) == s = "%"
decodeURIComponent(s) ==
  CASE s = "a%20b" -> "a b"
    [] OTHER -> s

\* .filter((part) => part.length > 0)
NonEmptyParts(path) == SelectSeq(path, LAMBDA part : part # "")

\* null is the record with ok = FALSE.
NoParams == [ok |-> FALSE, prompt |-> "", size |-> "", quality |-> ""]

parseImagePath(path) ==
  LET parts == NonEmptyParts(path)
  IN  IF Len(parts) < 2 \/ parts[1] # "image"
      THEN NoParams
      ELSE LET prompt == decodeURIComponent(parts[2])
               size == IF Len(parts) >= 3 THEN parts[3] ELSE DEFAULT_SIZE
               quality == IF Len(parts) >= 4 THEN parts[4] ELSE DEFAULT_QUALITY
           IN  IF prompt = ""
               THEN NoParams
               ELSE [ok |-> TRUE, prompt |-> prompt, size |-> size, quality |-> quality]

\* url.pathname.startsWith("/cost")
CostPrefixed == {"cost", "costume"}
StartsWithCost(path) == Len(path) >= 1 /\ path[1] \in CostPrefixed

\* url.pathname.replace("/cost/", "/image/"): the first segment "cost" that
\* is followed by a slash becomes "image".
ReplaceCost(path) ==
  LET hits == {i \in 1..(Len(path) - 1) : path[i] = "cost"}
  IN  IF hits = {}
      THEN path
      ELSE LET i == CHOOSE j \in hits : \A k \in hits : j <= k
           IN  [path EXCEPT ![i] = "image"]

(***************************************************************************)
(* The inputs of the model.                                                *)
(***************************************************************************)
Users == {"u1", "u2"}
Methods == {"GET", "POST"}
Bytes == {"b1", "b2"}
\* Non-success statuses of the OpenAI endpoint.
UpstreamErrors == {400, 500}

Paths ==
  { <<"image", "cat">>,
    <<"image", "cat", "1024x1024", "low">>,
    <<"image", "cat", "1024x1536", "high">>,
    <<"image", "cat", "1024x1024", "ultra">>,
    <<"image", "cat", "constructor">>,
    <<"image">>,
    <<"cost", "cat">>,
    <<"cost", "cat", "1024x1536", "high">>,
    <<"cost", "cat", "1024x1024", "ultra">>,
    <<"cost">> }

\* The query parameters of the q0, q1 and q2 handlers, as
\* url.searchParams.get returns them, "" standing for a parameter that is
\* absent as well as for one that is empty.  nParam is the raw n parameter.
NoQuery == [prompt |-> "", size |-> "", quality |-> "", nParam |-> ""]
Queries ==
  { [prompt |-> "cat", size |-> "", quality |-> "", nParam |-> ""],
    [prompt |-> "cat", size |-> "1024x1024", quality |-> "high", nParam |-> "1"],
    [prompt |-> "cat", size |-> "512x512", quality |-> "low", nParam |-> "2"],
    [prompt |-> "", size |-> "1024x1024", quality |-> "low", nParam |-> "1"],
    [prompt |-> "cat", size |-> "1024x1536", quality |-> "low", nParam |-> "1"],
    [prompt |-> "cat", size |-> "1024x1024", quality |-> "ultra", nParam |-> "1"],
    [prompt |-> "cat", size |-> "1024x1024", quality |-> "low", nParam |-> "0"],
    [prompt |-> "cat", size |-> "1024x1024", quality |-> "low", nParam |-> "5"],
    [prompt |-> "cat", size |-> "1024x1024", quality |-> "low", nParam |-> "abc"],
    [prompt |-> "cat", size |-> "1024x1024", quality |-> "low", nParam |-> "2abc"],
    [prompt |-> "cat", size |-> "1024x1024", quality |-> "low", nParam |-> "-1"] }

\* The arguments of the calls of the exported calculateImageGenerationCost.
CostArgs ==
  [ prompt : {"", "cat"},
    size : {"1024x1024", "1024x1536", "1536x1024", "512x512", "constructor"},
    quality : {"low", "medium", "high", "auto", "LOW", "ultra"},
    tokens : { [inputImageTokens |-> 0, cachedInputTokens |-> 0],
               [inputImageTokens |-> 5800, cachedInputTokens |-> 0],
               [inputImageTokens |-> 17400, cachedInputTokens |-> 8000] } ]
\* The calls made between two calls with the same arguments.
OtherArgs ==
  { [prompt |-> "cat", size |-> "1024x1536", quality |-> "high",
     tokens |-> [inputImageTokens |-> 0, cachedInputTokens |-> 0]],
    [prompt |-> "", size |-> "512x512", quality |-> "ultra",
     tokens |-> [inputImageTokens |-> 5800, cachedInputTokens |-> 0]] }

QueryHandlers == {"q0", "q1", "q2"}
\* The request slots: the handlers hold no lock and no in-flight table, so
\* their races are between two requests.  Spec uses the first slot only.
Reqs == {1, 2}

(***************************************************************************)
(* State.                                                                  *)
(*   cache    the R2 bucket env.stripeimages, by pathname                  *)
(*   balance  the stored balance of each user, in cents                    *)
(*   rq       the requests in flight, one record per slot; message is the  *)
(*            message of the latest answer of ctx.charge                   *)
(*   persisted  for each pathname, the bytes the handlers have stored      *)
(*            under it so far (history, never read by a handler)           *)
(*   estimate the calls of calculateImageGenerationCost made by a client   *)
(*            of the module, and what they returned                        *)
(***************************************************************************)
VARIABLES cache, balance, rq, persisted, estimate
vars == <<cache, balance, rq, persisted, estimate>>

\* ctx.registered of stripeflare: whether the user has paid once.
registered == [u \in Users |-> u = "u1"]

NoResponse == [status |-> 0, body |-> None]

Idle ==
  [ pc |-> "idle", handler |-> "path", caller |-> "u1", method |-> "GET",
    path |-> << >>, query |-> NoQuery,
    ctxRegistered |-> FALSE, ctxBalance |-> 0,
    amount |-> 0, upstream |-> 0, image |-> None, left |-> 0, seen |-> None,
    resp |-> NoResponse, outcome |-> None, message |-> None,
    log |-> << >>, spent |-> 0, prior |-> {} ]

NotCalled == [called |-> FALSE, ret |-> TypeError]
Returned(ret) == [called |-> TRUE, ret |-> ret]
NoArgs == [prompt |-> "", size |-> "", quality |-> "",
           tokens |-> [inputImageTokens |-> 0, cachedInputTokens |-> 0]]
\* args: the arguments of the first and of the second call; between: a
\* call with other arguments made between the two; asHigh: the call with
\* the same arguments but for the quality, which is high.
NoEstimate ==
  [args |-> NoArgs, first |-> NotCalled, between |-> NotCalled, second |-> NotCalled,
   asHigh |-> NotCalled]

Init ==
  /\ cache = [k \in Paths |-> None]
  /\ balance \in {b \in [Users -> 0..MaxBalance] : b["u2"] \in {0, MaxBalance}}
  /\ rq = [r \in Reqs |-> Idle]
  /\ persisted = [k \in Paths |-> {}]
  /\ estimate = NoEstimate

(***************************************************************************)
(* Helpers on a request record.                                            *)
(***************************************************************************)
Has(q, e) == \E i \in 1..Len(q.log) : q.log[i] = e
Count(q, E) == Cardinality({i \in 1..Len(q.log) : q.log[i] \in E})
Note(q, e) == [q EXCEPT !.log = Append(@, e)]

\* return new Response(body, {status})
Respond(q, outcome, status, body) ==
  [q EXCEPT !.pc = "done", !.outcome = outcome,
            !.resp = [status |-> status, body |-> body],
            !.log = Append(@, "respond")]

\* An exception that leaves the handler: the handler builds no response.
Escape(q) == [q EXCEPT !.pc = "done", !.outcome = "fault"]

ChargeEvents == {"charge_ok", "charge_declined", "charge_throw"}
ProviderEvents == {"provider_ok", "provider_fail", "provider_throw"}
GetEvents == {"get_hit", "get_miss", "get_throw"}
PutEvents == {"put_ok", "put_fail"}

(***************************************************************************)
(* Collaborators.                                                          *)
(***************************************************************************)
\* env.stripeimages.get(filename): the stored object, or null.
R2Get(key) == cache[key]

\* ctx.charge(amountCents, allowNegative) of stripeflare: an atomic
\* deduction that is refused when it would drive the balance below zero
\* and allowNegative is false; the gate may also refuse for its own reasons.
ChargeResults(bal, amountCents, allowNegative) ==
  (IF allowNegative \/ amountCents <= bal
   THEN {[charged |-> TRUE, balance |-> bal - amountCents, message |-> None]}
   ELSE {})
  \cup {[charged |-> FALSE, balance |-> bal, message |-> m] :
          m \in {"Insufficient balance", "User not found"}}

\* What the OpenAI endpoint answers with a success status: an image as
\* inline base64 (its bytes), an image as a remote reference, an entry with
\* neither (or with base64 that atob rejects), or a body that is not JSON.
ProviderImages == Bytes \cup {"url", "nodata", "badjson"}

(***************************************************************************)
(* The path-based handler, src/main.ts:303-666.                            *)
(***************************************************************************)
\* Variant of Unauthorized: && in place of ||.
Unauthorized_And(q) == ~q.ctxRegistered /\ q.ctxBalance <= 0

\* if (!ctx.registered || ctx.user.balance <= 0)
Unauthorized(q) == ~q.ctxRegistered \/ q.ctxBalance <= 0

\* parts[1] of a pathname that parseImagePath decodes, when it is malformed.
DecodeFails(path) ==
  LET parts == NonEmptyParts(path)
  IN  Len(parts) >= 2 /\ parts[1] = "image" /\ DecodeThrows(parts[2])

\* Variant of HitResponse: the body is not the stored object's.
HitResponse_Fixed(q, already) ==
  Respond(Note([q EXCEPT !.seen = already], "get_hit"), "cache_hit", 200, "b1")

\* if (already) return new Response(already.body, ...)
HitResponse(q, already) ==
  Respond(Note([q EXCEPT !.seen = already], "get_hit"), "cache_hit", 200, already)

\* Variant of Quote: the quoted amount is charged.
Quote_Charged(q) ==
  LET imagePath == ReplaceCost(q.path)
      pathParams == parseImagePath(imagePath)
      costBreakdown == calculateImageGenerationCost(pathParams.prompt, pathParams.size,
                                                    pathParams.quality, 0, 0)
  IN  IF DecodeFails(imagePath) THEN Escape(q)
      ELSE IF ~pathParams.ok
      THEN Respond(q, "quote_invalid", 400, "Invalid cost path format")
      ELSE IF costBreakdown.threw THEN Escape(q)
      ELSE [q EXCEPT !.pc = "charge", !.amount = costBreakdown.totalCostInCents]

\* Variant of Quote: the quote is kept in the bucket under the pathname of
\* the request.
Quote_Stored(q) ==
  LET imagePath == ReplaceCost(q.path)
      pathParams == parseImagePath(imagePath)
      costBreakdown == calculateImageGenerationCost(pathParams.prompt, pathParams.size,
                                                    pathParams.quality, 0, 0)
  IN  IF DecodeFails(imagePath) THEN Escape(q)
      ELSE IF ~pathParams.ok
      THEN Respond(q, "quote_invalid", 400, "Invalid cost path format")
      ELSE IF costBreakdown.threw THEN Escape(q)
      ELSE [q EXCEPT !.pc = "put", !.image = "b1",
                     !.amount = costBreakdown.totalCostInCents]

\* Variant of Quote: the quote is for the default size and quality.
Quote_Defaults(q) ==
  LET imagePath == ReplaceCost(q.path)
      pathParams == parseImagePath(imagePath)
      costBreakdown == calculateImageGenerationCost(pathParams.prompt, DEFAULT_SIZE,
                                                    DEFAULT_QUALITY, 0, 0)
  IN  IF DecodeFails(imagePath) THEN Escape(q)
      ELSE IF ~pathParams.ok
      THEN Respond(q, "quote_invalid", 400, "Invalid cost path format")
      ELSE IF costBreakdown.threw THEN Escape(q)
      ELSE Respond([q EXCEPT !.amount = costBreakdown.totalCostInCents],
                   "quote", 200, "quote")

\* The quote endpoint, src/main.ts:322-412: it is outside the try block.
Quote(q) ==
  LET imagePath == ReplaceCost(q.path)
      pathParams == parseImagePath(imagePath)
      costBreakdown == calculateImageGenerationCost(pathParams.prompt, pathParams.size,
                                                    pathParams.quality, 0, 0)
  IN  IF DecodeFails(imagePath) THEN Escape(q)
      ELSE IF ~pathParams.ok
      THEN Respond(q, "quote_invalid", 400, "Invalid cost path format")
      ELSE IF costBreakdown.threw THEN Escape(q)
      ELSE Respond([q EXCEPT !.amount = costBreakdown.totalCostInCents],
                   "quote", 200, "quote")

\* Variant of PathGenerate: a balance below the cost is turned away with
\* the payment link, without a call of ctx.charge.
PathGenerate_CostChecked(q) ==
  LET pathParams == parseImagePath(q.path)
      costBreakdown == calculateImageGenerationCost(pathParams.prompt, pathParams.size,
                                                    pathParams.quality, 0, 0)
  IN  IF DecodeFails(q.path)
      THEN Respond(q, "internal", 500, "Internal server error")
      ELSE IF ~pathParams.ok
      THEN Respond(q, "validation", 400, "landingPage")
      ELSE IF costBreakdown.threw
      THEN Respond(q, "internal", 500, "Internal server error")
      ELSE IF q.ctxBalance < costBreakdown.totalCostInCents
      THEN Respond([q EXCEPT !.amount = costBreakdown.totalCostInCents],
                   "payment_required", 302, "paymentLink")
      ELSE [q EXCEPT !.pc = "charge", !.amount = costBreakdown.totalCostInCents]

\* Variant of PathGenerate: a path that does not parse is served as the
\* default request, whatever its segments.
PathGenerate_Lenient(q) ==
  LET parsed == parseImagePath(q.path)
      pathParams == IF parsed.ok THEN parsed
                    ELSE [ok |-> TRUE, prompt |-> "cat", size |-> DEFAULT_SIZE,
                          quality |-> DEFAULT_QUALITY]
      costBreakdown == calculateImageGenerationCost(pathParams.prompt, pathParams.size,
                                                    pathParams.quality, 0, 0)
  IN  IF DecodeFails(q.path)
      THEN Respond(q, "internal", 500, "Internal server error")
      ELSE IF costBreakdown.threw
      THEN Respond(q, "internal", 500, "Internal server error")
      ELSE [q EXCEPT !.pc = "charge", !.amount = costBreakdown.totalCostInCents]

\* src/main.ts:436-533, up to the await of ctx.charge.
PathGenerate(q) ==
  LET pathParams == parseImagePath(q.path)
      costBreakdown == calculateImageGenerationCost(pathParams.prompt, pathParams.size,
                                                    pathParams.quality, 0, 0)
  IN  IF DecodeFails(q.path)
      THEN Respond(q, "internal", 500, "Internal server error")
      ELSE IF ~pathParams.ok
      THEN Respond(q, "validation", 400, "landingPage")
      ELSE IF costBreakdown.threw
      THEN Respond(q, "internal", 500, "Internal server error")
      ELSE [q EXCEPT !.pc = "charge", !.amount = costBreakdown.totalCostInCents]

\* Variant of PathAfterMiss: the method of the request is not looked at.
PathAfterMiss_AnyMethod(q) ==
  IF StartsWithCost(q.path) THEN Quote(q)
  ELSE IF Unauthorized(q) THEN Respond(q, "payment_required", 302, "paymentLink")
  ELSE PathGenerate(q)

\* src/main.ts:322-434: what follows a lookup that found nothing.
PathAfterMiss(q) ==
  IF StartsWithCost(q.path) THEN Quote(q)
  ELSE IF Unauthorized(q) THEN Respond(q, "payment_required", 302, "paymentLink")
  ELSE IF q.method # "GET" THEN Respond(q, "method_not_allowed", 405, "Method Not Allowed")
  ELSE PathGenerate(q)

\* Variant of AfterGet: the stored object is ignored.
AfterGet_NoLookup(q, already) == PathAfterMiss(Note(q, "get_miss"))

\* Variant of AfterGet: the balance check comes before the stored object is
\* looked at, as in the query handlers.
AfterGet_AuthFirst(q, already) ==
  IF Unauthorized(q) THEN Respond(q, "payment_required", 302, "paymentLink")
  ELSE IF already # None THEN HitResponse(q, already)
  ELSE PathAfterMiss(Note(q, "get_miss"))

\* src/main.ts:308-320
AfterGet(q, already) ==
  IF already # None THEN HitResponse(q, already) ELSE PathAfterMiss(Note(q, "get_miss"))

(***************************************************************************)
(* The query-parameter handlers: src/unnamed/part_000, part_001 and        *)
(* src/main.ts:833-1100.                                                   *)
(***************************************************************************)
QUERY_SIZES == {"256x256", "512x512", "1024x1024", "1024x1792", "1792x1024"}
QUERY_QUALITIES == {"low", "medium", "high", "auto"}
MIN_N == 1
MAX_N == 4
CENTS_PER_HD_IMAGE == 4
CENTS_PER_STANDARD_IMAGE == 2

\* url.searchParams.get("size") || "1024x1024"
QuerySize(query) == IF query.size = "" THEN DEFAULT_SIZE ELSE query.size
QueryQuality(query) == IF query.quality = "" THEN DEFAULT_QUALITY ELSE query.quality
\* parseInt(string, 10): white space at the front is skipped, a sign is
\* read, and the value is that of the longest run of decimal digits that
\* follows; what comes after the run is ignored, and without a digit the
\* result is NaN.
NNaN == [nan |-> TRUE, val |-> 0]
NNum(v) == [nan |-> FALSE, val |-> v]
DigitChars == <<"0", "1", "2", "3", "4", "5", "6", "7", "8", "9">>
IsDigit(c) == \E i \in 1..Len(DigitChars) : DigitChars[i] = c
DigitValue(c) == (CHOOSE i \in 1..Len(DigitChars) : DigitChars[i] = c) - 1
CharAt(s, i) == IF i \in 1..Len(s) THEN SubSeq(s, i, i) ELSE ""
RECURSIVE DecimalValue(_, _, _)
DecimalValue(s, i, j) ==
  IF j < i THEN 0 ELSE 10 * DecimalValue(s, i, j - 1) + DigitValue(CharAt(s, j))
parseInt(s) ==
  LET start == CHOOSE i \in 1..(Len(s) + 1) :
                 /\ CharAt(s, i) # " "
                 /\ \A k \in 1..(i - 1) : CharAt(s, k) = " "
      signed == CharAt(s, start) \in {"+", "-"}
      first == IF signed THEN start + 1 ELSE start
      last == CHOOSE j \in (first - 1)..Len(s) :
                /\ \A k \in first..j : IsDigit(CharAt(s, k))
                /\ ~IsDigit(CharAt(s, j + 1))
      magnitude == DecimalValue(s, first, last)
  IN  IF last < first THEN NNaN
      ELSE NNum(IF CharAt(s, start) = "-" THEN 0 - magnitude ELSE magnitude)

\* nParam ? parseInt(nParam, 10) : 1
QueryN(query) == IF query.nParam # "" THEN parseInt(query.nParam) ELSE NNum(1)

\* Math.ceil(n * 0.1), the storage cost of src/main.ts:953.
StorageCost(n) == DCeil(DMul(DOfInt(n), DDivInt(1, 10)))

QueryCost(handler, quality, n) ==
  (IF quality \in {"high", "auto"} THEN CENTS_PER_HD_IMAGE * n
                                    ELSE CENTS_PER_STANDARD_IMAGE * n)
  + (IF handler = "q2" THEN StorageCost(n) ELSE 0)

\* The 400 answers of the handlers, in the order of the code.
QueryInvalid(query) ==
  LET n == QueryN(query)
  IN  \/ query.prompt = ""
      \/ QuerySize(query) \notin QUERY_SIZES
      \/ QueryQuality(query) \notin QUERY_QUALITIES
      \/ n.nan \/ n.val < MIN_N \/ n.val > MAX_N

\* From the entry of the handler to the await of ctx.charge.
QueryEntry(q) ==
  IF Unauthorized(q) THEN Respond(q, "payment_required", 402, "paymentLink")
  ELSE IF q.method # "GET" THEN Respond(q, "method_not_allowed", 405, "Method Not Allowed")
  ELSE IF QueryInvalid(q.query) THEN Respond(q, "validation", 400, "Invalid Request")
  ELSE [q EXCEPT !.pc = "charge",
                 !.amount = QueryCost(q.handler, QueryQuality(q.query), QueryN(q.query).val)]

(***************************************************************************)
(* What a handler does when an await returns.                              *)
(***************************************************************************)
\* The body of the 402 response, with the message of the gate in it:
\* src/main.ts:536 (text), part_000:91-95 (JSON; JSON.stringify leaves the
\* letters and spaces of the messages as they are), src/main.ts:961-969 and
\* part_001:233-241 (markdown; the user, the balance and the processing time
\* of the page are left out).
DeclinedBody(handler, message) ==
  CASE handler = "path" -> "Payment failed: " \o message
    [] handler = "q0" ->
         "{\"error\":\"Could not charge user\",\"message\":\"" \o message \o "\"}"
    [] OTHER ->
         "# Payment Failed **Error:** Could not charge user **Message:** " \o message

\* Variant of AfterCharge: the response has the handler's own words in place
\* of the message of the gate.
AfterCharge_OwnMessage(q, res, deducted) ==
  IF ~res.charged
  THEN Respond(Note(q, "charge_declined"), "declined", 402,
               DeclinedBody(q.handler, "Could not charge user"))
  ELSE [Note(q, "charge_ok") EXCEPT !.pc = "provider", !.spent = @ + deducted]

\* Variant of AfterCharge: charged is not looked at.
AfterCharge_Unchecked(q, res, deducted) ==
  [Note(q, IF res.charged THEN "charge_ok" ELSE "charge_declined")
     EXCEPT !.pc = "provider", !.spent = @ + deducted]

\* Variant of AfterCharge: a refused charge is tried once more.
AfterCharge_Retry(q, res, deducted) ==
  IF ~res.charged
  THEN IF Has(q, "charge_declined")
       THEN Respond(Note(q, "charge_declined"), "declined", 402,
               DeclinedBody(q.handler, res.message))
       ELSE Note(q, "charge_declined")
  ELSE [Note(q, "charge_ok") EXCEPT !.pc = "provider", !.spent = @ + deducted]

\* const { charged, message } = await ctx.charge(...); if (!charged) ...
\* deducted is what the call took from the balance.
AfterCharge(q, res, deducted) ==
  IF ~res.charged
  THEN Respond(Note(q, "charge_declined"), "declined", 402,
               DeclinedBody(q.handler, res.message))
  ELSE [Note(q, "charge_ok") EXCEPT !.pc = "provider", !.spent = @ + deducted]

\* ctx.charge rejects: the catch block of every handler answers 500.
ChargeThrew(q) ==
  Respond(Note(q, "charge_throw"), "internal", 500, "Internal server error")

\* fetch("https://api.openai.com/v1/images/generations") rejects.
ProviderThrew(q) ==
  Respond(Note(q, "provider_throw"), "internal", 500, "Internal server error")

\* if (!openaiResponse.ok): the path handler reads the body as text and
\* survives a failure to read it; the query handlers parse it as JSON inside
\* the try block.
ProviderFailed(q, status, readable) ==
  LET p == [Note(q, "provider_fail") EXCEPT !.upstream = status]
  IN  IF q.handler = "path" \/ readable
      THEN Respond(p, "provider_failure", status, "Image generation failed")
      ELSE Respond(p, "internal", 500, "Internal server error")

\* Variant of ProviderSucceeded: the path handler answers at once and leaves
\* the upload to run on its own.
ProviderSucceeded_Detached(q, img) ==
  LET p == [Note(q, "provider_ok") EXCEPT !.upstream = 200]
  IN  IF img = "badjson"
      THEN Respond(p, "internal", 500, "Internal server error")
      ELSE CASE q.handler = "path" ->
                  IF img = "nodata"
                  THEN Respond(p, "processing_failure", 500, "Image processing failed")
                  ELSE IF img = "url"
                  THEN [p EXCEPT !.pc = "resolve"]
                  ELSE [Respond(p, "ok", 200, img) EXCEPT !.pc = "put", !.image = img]
             [] q.handler = "q2" ->
                  [p EXCEPT !.pc = "save", !.image = img, !.left = QueryN(q.query).val]
             [] OTHER -> Respond(p, "ok", 200, img)

\* The success branch, up to the next await or the response.
ProviderSucceeded(q, img) ==
  LET p == [Note(q, "provider_ok") EXCEPT !.upstream = 200]
  IN  IF img = "badjson"
      THEN Respond(p, "internal", 500, "Internal server error")
      ELSE CASE q.handler = "path" ->
                  IF img = "nodata"
                  THEN Respond(p, "processing_failure", 500, "Image processing failed")
                  ELSE IF img = "url"
                  THEN [p EXCEPT !.pc = "resolve"]
                  ELSE [p EXCEPT !.pc = "put", !.image = img]
             [] q.handler = "q2" ->
                  [p EXCEPT !.pc = "save", !.image = img, !.left = QueryN(q.query).val]
             [] OTHER -> Respond(p, "ok", 200, img)

\* getImageBuffer, src/main.ts:264-269: the remote reference is fetched.
Resolved(q, bytes) == [Note(q, "fetch_ok") EXCEPT !.pc = "put", !.image = bytes]
\* Variant of ResolveFailed: the provider's own reference is handed on.
ResolveFailed_Fallback(q) ==
  Respond(Note(q, "fetch_fail"), "ok", 200, "url")

ResolveFailed(q) ==
  Respond(Note(q, "fetch_fail"), "processing_failure", 500, "Image processing failed")

\* Variant of AfterPut: a rejected upload is reported to the caller.
AfterPut_Surfaced(q, saved) ==
  IF saved
  THEN Respond(Note(q, "put_ok"), "ok", 200, q.image)
  ELSE Respond(Note(q, "put_fail"), "internal", 500, "Internal server error")

\* src/main.ts:603-628: the response that follows the awaited saveImageToR2,
\* whether it resolved or rejected.
AfterPut(q, saved) ==
  Respond(Note(q, IF saved THEN "put_ok" ELSE "put_fail"), "ok", 200, q.image)

\* src/main.ts:1024-1079: one turn of the loop that uploads the images of
\* the q2 handler under generated file names; a failure falls back to the
\* provider's own reference.  event is what the turn did to the bucket.
AfterSave(q, event) ==
  LET p == [Note(q, event) EXCEPT !.left = @ - 1]
  IN  IF p.left = 0 THEN Respond(p, "ok", 200, "html") ELSE p

NewRequest(h, u, m, path, query) ==
  [Idle EXCEPT !.handler = h, !.caller = u, !.method = m, !.path = path,
               !.query = query,
               !.ctxRegistered = registered[u], !.ctxBalance = balance[u],
               !.prior = IF h = "path" THEN persisted[path] ELSE {}]

\* The path handler awaits the bucket first; the query handlers run up to
\* their charge.
Begin(q) == IF q.handler = "path" THEN [q EXCEPT !.pc = "get"] ELSE QueryEntry(q)

(***************************************************************************)
(* Actions.                                                                *)
(***************************************************************************)
StartWith(r, handlers, users, methods, paths, queries) ==
  /\ rq[r].pc = "idle"
  /\ \E h \in handlers, u \in users, m \in methods :
       \E path \in (IF h = "path" THEN paths ELSE {<< >>}),
          query \in (IF h = "path" THEN {NoQuery} ELSE queries) :
         rq' = [rq EXCEPT ![r] = Begin(NewRequest(h, u, m, path, query))]
  /\ UNCHANGED <<cache, balance, persisted>>

CacheGet(r) ==
  /\ rq[r].pc = "get"
  /\ \/ rq' = [rq EXCEPT ![r] = Escape(Note(rq[r], "get_throw"))]
     \/ rq' = [rq EXCEPT ![r] = AfterGet(rq[r], R2Get(rq[r].path))]
  /\ UNCHANGED <<cache, balance, persisted>>

\* Variant of Charge: a request waits while another request for the same
\* pathname is between its charge and its upload.
Charge_SingleFlight(r) ==
  /\ rq[r].pc = "charge"
  /\ \A s \in Reqs \ {r} :
       ~(rq[s].path = rq[r].path /\ rq[s].pc \in {"provider", "resolve", "put"})
  /\ LET q == rq[r]
     IN  \/ \E res \in ChargeResults(balance[q.caller], q.amount, FALSE) :
              /\ balance' = [balance EXCEPT ![q.caller] = res.balance]
              /\ rq' = [rq EXCEPT ![r] =
                          AfterCharge([q EXCEPT !.message = res.message], res,
                                      balance[q.caller] - res.balance)]
         \/ /\ rq' = [rq EXCEPT ![r] = ChargeThrew(q)]
            /\ UNCHANGED balance
  /\ UNCHANGED <<cache, persisted>>

\* Variant of Charge: ctx.charge is called with allowNegative = true.
Charge_AllowNegative(r) ==
  /\ rq[r].pc = "charge"
  /\ LET q == rq[r]
     IN  \/ \E res \in ChargeResults(balance[q.caller], q.amount, TRUE) :
              /\ balance' = [balance EXCEPT ![q.caller] = res.balance]
              /\ rq' = [rq EXCEPT ![r] =
                          AfterCharge([q EXCEPT !.message = res.message], res,
                                      balance[q.caller] - res.balance)]
         \/ /\ rq' = [rq EXCEPT ![r] = ChargeThrew(q)]
            /\ UNCHANGED balance
  /\ UNCHANGED <<cache, persisted>>

\* ctx.charge(totalCostInCents, false), src/main.ts:533 (and 959,
\* part_000:88, part_001:230).
Charge(r) ==
  /\ rq[r].pc = "charge"
  /\ LET q == rq[r]
     IN  \/ \E res \in ChargeResults(balance[q.caller], q.amount, FALSE) :
              /\ balance' = [balance EXCEPT ![q.caller] = res.balance]
              /\ rq' = [rq EXCEPT ![r] =
                          AfterCharge([q EXCEPT !.message = res.message], res,
                                      balance[q.caller] - res.balance)]
         \/ /\ rq' = [rq EXCEPT ![r] = ChargeThrew(q)]
            /\ UNCHANGED balance
  /\ UNCHANGED <<cache, persisted>>

\* Variant of Provider: a failed generation gives the charge back.
Provider_Refund(r) ==
  /\ rq[r].pc = "provider"
  /\ \/ /\ rq' = [rq EXCEPT ![r] = ProviderThrew(rq[r])]
        /\ UNCHANGED balance
     \/ /\ \E status \in UpstreamErrors, readable \in BOOLEAN :
             rq' = [rq EXCEPT ![r] = ProviderFailed(rq[r], status, readable)]
        /\ balance' = [balance EXCEPT ![rq[r].caller] = @ + rq[r].amount]
     \/ /\ \E img \in ProviderImages :
             rq' = [rq EXCEPT ![r] = ProviderSucceeded(rq[r], img)]
        /\ UNCHANGED balance
  /\ UNCHANGED <<cache, persisted>>

Provider(r) ==
  /\ rq[r].pc = "provider"
  /\ \/ rq' = [rq EXCEPT ![r] = ProviderThrew(rq[r])]
     \/ \E status \in UpstreamErrors, readable \in BOOLEAN :
          rq' = [rq EXCEPT ![r] = ProviderFailed(rq[r], status, readable)]
     \/ \E img \in ProviderImages :
          rq' = [rq EXCEPT ![r] = ProviderSucceeded(rq[r], img)]
  /\ UNCHANGED <<cache, balance, persisted>>

\* Variant of Resolve: a remote reference that cannot be fetched gives the
\* charge back.
Resolve_Refund(r) ==
  /\ rq[r].pc = "resolve"
  /\ \/ /\ \E bytes \in Bytes : rq' = [rq EXCEPT ![r] = Resolved(rq[r], bytes)]
        /\ UNCHANGED balance
     \/ /\ rq' = [rq EXCEPT ![r] = ResolveFailed(rq[r])]
        /\ balance' = [balance EXCEPT ![rq[r].caller] = @ + rq[r].amount]
  /\ UNCHANGED <<cache, persisted>>

Resolve(r) ==
  /\ rq[r].pc = "resolve"
  /\ \/ \E bytes \in Bytes : rq' = [rq EXCEPT ![r] = Resolved(rq[r], bytes)]
     \/ rq' = [rq EXCEPT ![r] = ResolveFailed(rq[r])]
  /\ UNCHANGED <<cache, balance, persisted>>

\* Variant of Put: the object stored is not the image of the response.
Put_OtherBytes(r) ==
  /\ rq[r].pc = "put"
  /\ LET q == rq[r]
         other == CHOOSE b \in Bytes : b # q.image
     IN  \/ /\ cache' = [cache EXCEPT ![q.path] = other]
            /\ persisted' = [persisted EXCEPT ![q.path] = @ \cup {other}]
            /\ rq' = [rq EXCEPT ![r] = AfterPut(q, TRUE)]
         \/ /\ rq' = [rq EXCEPT ![r] = AfterPut(q, FALSE)]
            /\ UNCHANGED <<cache, persisted>>
  /\ UNCHANGED balance

\* Variant of Put: a rejected upload leaves the key without an object.
Put_ClearOnFail(r) ==
  /\ rq[r].pc = "put"
  /\ LET q == rq[r]
     IN  \/ /\ cache' = [cache EXCEPT ![q.path] = q.image]
            /\ persisted' = [persisted EXCEPT ![q.path] = @ \cup {q.image}]
            /\ rq' = [rq EXCEPT ![r] = AfterPut(q, TRUE)]
         \/ /\ rq' = [rq EXCEPT ![r] = AfterPut(q, FALSE)]
            /\ cache' = [cache EXCEPT ![q.path] = None]
            /\ UNCHANGED persisted
  /\ UNCHANGED balance

\* saveImageToR2, src/main.ts:192-246, with an ArrayBuffer: the put, which
\* resolves or rejects.
Put(r) ==
  /\ rq[r].pc = "put"
  /\ LET q == rq[r]
     IN  \/ /\ cache' = [cache EXCEPT ![q.path] = q.image]
            /\ persisted' = [persisted EXCEPT ![q.path] = @ \cup {q.image}]
            /\ rq' = [rq EXCEPT ![r] = AfterPut(q, TRUE)]
         \/ /\ rq' = [rq EXCEPT ![r] = AfterPut(q, FALSE)]
            /\ UNCHANGED <<cache, persisted>>
  /\ UNCHANGED balance

\* The bucket keys of the q2 handler are generated file names
\* (images/<user>/<time>-<prompt>-<i>.png): no pathname is one of them, so
\* these objects are never read and cache, which holds the pathnames, is
\* left alone.  The fetch of a remote reference and the put of one turn of
\* the loop are taken together.
Save(r) ==
  /\ rq[r].pc = "save"
  /\ \E event \in {"put_ok", "put_fail", "fetch_fail"} :
       rq' = [rq EXCEPT ![r] = AfterSave(rq[r], event)]
  /\ UNCHANGED <<cache, balance, persisted>>

\* The response has been handed to the runtime (or the exception has left
\* the handler): the request is over.
Finish(r) ==
  /\ rq[r].pc = "done"
  /\ rq' = [rq EXCEPT ![r] = Idle]
  /\ UNCHANGED <<cache, balance, persisted>>

Step(r) ==
  CacheGet(r) \/ Charge(r) \/ Provider(r) \/ Resolve(r) \/ Put(r) \/ Save(r) \/ Finish(r)

(***************************************************************************)
(* Spec: requests one after the other, every handler and every input.      *)
(***************************************************************************)
AllHandlers == {"path"} \cup QueryHandlers

Start ==
  /\ \A s \in Reqs : rq[s].pc = "idle"
  /\ StartWith(1, AllHandlers, Users, Methods, Paths, Queries)

Next == (Start \/ \E r \in Reqs : Step(r)) /\ UNCHANGED estimate

Spec == Init /\ [][Next]_vars

\* Every await of a request settles: the collaborator it waits for (the
\* bucket, ctx.charge, the provider, the fetch of a reference) resolves or
\* rejects, and the runtime takes the response.
Fairness == \A r \in Reqs : WF_vars(Step(r) /\ UNCHANGED estimate)
SpecLive == Spec /\ Fairness

(***************************************************************************)
(* SpecConc: two GET requests of the path handler by the registered user,  *)
(* interleaved at every await.                                             *)
(***************************************************************************)
ConcPaths == { <<"image", "cat">>, <<"image", "cat", "1024x1536", "high">> }

StartConc(r) ==
  /\ \A s \in 1..(r - 1) : rq[s].pc # "idle"
  /\ StartWith(r, {"path"}, {"u1"}, {"GET"}, ConcPaths, {NoQuery})

StepConc(r) ==
  CacheGet(r) \/ Charge(r) \/ Provider(r) \/ Resolve(r) \/ Put(r) \/ Finish(r)

NextConc == (\E r \in Reqs : StartConc(r) \/ StepConc(r)) /\ UNCHANGED estimate

InitConc == Init /\ balance["u2"] = 0

SpecConc == InitConc /\ [][NextConc]_vars

(***************************************************************************)
(* SpecCost: calculateImageGenerationCost called by a client of the        *)
(* module: a call, possibly a call with other arguments, and the same call *)
(* again, whatever the balances are.                                       *)
(***************************************************************************)
Call(a) ==
  calculateImageGenerationCost(a.prompt, a.size, a.quality,
                               a.tokens.inputImageTokens, a.tokens.cachedInputTokens)

Estimate ==
  /\ ~estimate.first.called
  /\ estimate' = [estimate EXCEPT !.first = Returned(Call(estimate.args))]

EstimateOther ==
  /\ estimate.first.called /\ ~estimate.between.called /\ ~estimate.second.called
  /\ \E o \in OtherArgs : estimate' = [estimate EXCEPT !.between = Returned(Call(o))]

\* Variant of EstimateAgain: the breakdown of the latest call is kept and
\* returned again.
EstimateAgain_Memo ==
  /\ estimate.first.called /\ ~estimate.second.called
  /\ estimate' = [estimate EXCEPT !.second =
                    IF estimate.between.called THEN estimate.between
                    ELSE Returned(Call(estimate.args))]

EstimateAgain ==
  /\ estimate.first.called /\ ~estimate.second.called
  /\ estimate' = [estimate EXCEPT !.second = Returned(Call(estimate.args))]

\* A client that asked for the quality auto asks for the quality high.
EstimateAsHigh ==
  /\ estimate.first.called /\ ~estimate.asHigh.called
  /\ estimate.args.quality = "auto"
  /\ estimate' = [estimate EXCEPT !.asHigh =
                    Returned(Call([estimate.args EXCEPT !.quality = "high"]))]

NextCost ==
  (Estimate \/ EstimateOther \/ EstimateAgain \/ EstimateAsHigh)
    /\ UNCHANGED <<cache, balance, rq, persisted>>

InitCost ==
  /\ cache = [k \in Paths |-> None]
  /\ balance \in {b \in [Users -> {0, MaxBalance}] : b["u2"] = 0}
  /\ rq = [r \in Reqs |-> Idle]
  /\ persisted = [k \in Paths |-> {}]
  /\ estimate \in {[NoEstimate EXCEPT !.args = a] : a \in CostArgs}

SpecCost == InitCost /\ [][NextCost]_vars

(***************************************************************************)
(* Properties.                                                             *)
(***************************************************************************)
Done(q) == q.pc = "done"
Paid == ChargeEvents \cup ProviderEvents
\* The caller as the handler sees it: unregistered, or nothing left.
NoFunds(q) == q.pc # "idle" /\ (~q.ctxRegistered \/ q.ctxBalance <= 0)
\* Would be served if it were not for the bucket: a GET of a well-formed
\* image path by a registered caller with a positive balance.
Billable(q) ==
  /\ q.handler = "path" /\ q.method = "GET"
  /\ q.ctxRegistered /\ q.ctxBalance > 0
  /\ Len(q.path) >= 2 /\ q.path[1] = "image"

\* C1: a request of the path handler whose pathname has an object in the
\* bucket is answered 200 with the bytes of that object and makes no charge
\* and no provider call; every charge of the path handler comes after a
\* lookup of its own request that found nothing.
C1_CacheHitIsFree ==
  \A r \in Reqs :
    LET q == rq[r]
    IN  /\ ( /\ Done(q) /\ q.handler = "path"
             /\ cache[q.path] # None /\ ~Has(q, "put_ok") /\ ~Has(q, "get_throw") )
           => /\ q.outcome = "cache_hit"
              /\ q.resp = [status |-> 200, body |-> cache[q.path]]
              /\ Count(q, Paid) = 0
              /\ q.spent = 0
        /\ q.handler = "path"
           => \A i \in 1..Len(q.log) :
                q.log[i] \in ChargeEvents => \E j \in 1..(i - 1) : q.log[j] = "get_miss"

\* A request that would have been charged is served from the bucket.
C1_Witness ==
  \E r \in Reqs :
    /\ Done(rq[r]) /\ Billable(rq[r])
    /\ rq[r].outcome = "cache_hit"
    /\ rq[r].resp.body = cache[rq[r].path]

\* C2, as stated: a caller who is unregistered or has no balance gets the
\* payment-required answer and no lookup or write of the bucket is made.
C2_AuthBeforeLookup ==
  \A r \in Reqs :
    (Done(rq[r]) /\ NoFunds(rq[r]))
      => /\ rq[r].outcome = "payment_required"
         /\ Count(rq[r], GetEvents \cup PutEvents) = 0

\* C2, amended: for such a caller the path handler looks the pathname up
\* first, exactly once, and never writes the bucket: a stored object is
\* returned to the caller, and only when nothing is stored (and the path is
\* not a /cost path) is the answer the redirect to the payment link; nothing
\* is charged and the provider is not called.  The query handlers, which
\* use no bucket lookup, answer 402 at once.
C2_LookupBeforeAuth ==
  \A r \in Reqs :
    LET q == rq[r]
    IN  (Done(q) /\ NoFunds(q))
          => /\ Count(q, PutEvents \cup Paid) = 0
             /\ q.handler = "path"
                => /\ Count(q, GetEvents) = 1
                   /\ q.log[1] \in GetEvents
                   /\ Has(q, "get_hit")
                      => (q.outcome = "cache_hit" /\ q.resp = [status |-> 200, body |-> q.seen])
                   /\ (Has(q, "get_miss") /\ ~StartsWithCost(q.path))
                      => (q.outcome = "payment_required" /\ q.resp.status = 302)
             /\ q.handler \in QueryHandlers
                => /\ q.outcome = "payment_required"
                   /\ q.resp.status = 402
                   /\ q.log = <<"respond">>

\* A caller without funds receives the stored bytes.
C2_Witness ==
  \E r \in Reqs :
    /\ Done(rq[r]) /\ NoFunds(rq[r])
    /\ rq[r].outcome = "cache_hit"
    /\ rq[r].resp.body \in Bytes

\* C3: in every handler, a request whose caller is unregistered or has a
\* balance <= 0 never calls ctx.charge and never calls the provider, and
\* takes nothing from the balance.
C3_NoFundsNoPaidCall ==
  \A r \in Reqs :
    NoFunds(rq[r])
      => /\ Count(rq[r], Paid) = 0
         /\ rq[r].pc \notin {"charge", "provider", "resolve", "put", "save"}
         /\ rq[r].spent = 0

\* An unregistered caller who holds a balance is turned away by a query
\* handler on a request that is valid otherwise.
C3_Witness ==
  \E r \in Reqs :
    LET q == rq[r]
    IN  /\ Done(q) /\ NoFunds(q) /\ q.ctxBalance > 0
        /\ q.handler \in QueryHandlers /\ q.method = "GET" /\ ~QueryInvalid(q.query)
        /\ q.outcome = "payment_required"

\* The amount the path handler computes for its pathname.
PathCost(path) ==
  LET pp == parseImagePath(path)
  IN  calculateImageGenerationCost(pp.prompt, pp.size, pp.quality, 0, 0).totalCostInCents

\* C4: a request of the path handler that found nothing in the bucket, was
\* charged and got a non-success status from the provider ends with that
\* status, and the caller's balance is the balance at the start of the
\* request minus the computed cost: one charge, nothing given back.
C4_ProviderFailureKeepsCharge ==
  \A r \in Reqs :
    LET q == rq[r]
    IN  (Done(q) /\ q.handler = "path" /\ Has(q, "charge_ok") /\ Has(q, "provider_fail"))
          => /\ Has(q, "get_miss")
             /\ q.outcome = "provider_failure"
             /\ q.resp.status = q.upstream /\ q.upstream \in UpstreamErrors
             /\ balance[q.caller] = q.ctxBalance - PathCost(q.path)
             /\ q.spent = PathCost(q.path)
             /\ PathCost(q.path) >= 1
             /\ Count(q, ChargeEvents) = 1

\* A charged request is answered with the provider's error status.
C4_Witness ==
  \E r \in Reqs :
    /\ Done(rq[r]) /\ rq[r].handler = "path"
    /\ rq[r].outcome = "provider_failure"
    /\ rq[r].resp.status = 400
    /\ balance[rq[r].caller] < rq[r].ctxBalance

\* C5: in every handler the provider is called only after ctx.charge has
\* returned charged = true in the same request; a request whose charge was
\* refused, or threw, never calls the provider.
C5_ProviderOnlyAfterCharge ==
  \A r \in Reqs :
    LET q == rq[r]
    IN  /\ \A i \in 1..Len(q.log) :
             q.log[i] \in ProviderEvents \cup {"fetch_ok", "fetch_fail"} \cup PutEvents
               => \E j \in 1..(i - 1) : q.log[j] = "charge_ok"
        /\ q.pc \in {"provider", "resolve", "put", "save"} => Has(q, "charge_ok")
        /\ (Has(q, "charge_declined") \/ Has(q, "charge_throw"))
             => (Count(q, ProviderEvents) = 0 /\ q.pc = "done")

\* A charge is refused although the balance covers it, and the request ends.
C5_Witness ==
  \E r \in Reqs :
    /\ Done(rq[r]) /\ Has(rq[r], "charge_declined")
    /\ rq[r].amount <= balance[rq[r].caller]
    /\ rq[r].outcome = "declined"

\* C6: a request calls ctx.charge at most once, whatever the charge, the
\* provider and the upload do: a refused charge ends the request, and after
\* a charge that succeeded no step of the request is a charge again.
C6_AtMostOneCharge ==
  \A r \in Reqs :
    LET q == rq[r]
    IN  /\ Count(q, ChargeEvents) <= 1
        /\ q.pc = "charge" => Count(q, ChargeEvents) = 0
        /\ Has(q, "charge_declined") => (q.pc = "done" /\ q.outcome = "declined")

\* A request that was charged, generated and failed to upload has charged
\* once.
C6_Witness ==
  \E r \in Reqs :
    /\ Done(rq[r]) /\ Has(rq[r], "put_fail")
    /\ Count(rq[r], ChargeEvents) = 1
    /\ rq[r].spent = rq[r].amount

\* Between its lookup and its upload a request for a pathname is in flight.
InFlight(q) == q.pc \in {"charge", "provider", "resolve", "put"}

\* C7: nothing keeps a request from its lookup or its charge while another
\* request for the same pathname is in flight: the step is enabled in every
\* such state, so two requests that both found nothing are both charged and
\* both call the provider before either upload.
C7_NoInFlightDeduplication ==
  \A r \in Reqs, s \in Reqs :
    (r # s /\ rq[r].path = rq[s].path /\ InFlight(rq[s]))
      => /\ rq[r].pc = "get" => ENABLED CacheGet(r)
         /\ rq[r].pc = "charge" => ENABLED Charge(r)

\* Two requests for one pathname, nothing stored under it yet: both looked
\* it up and found nothing, both were charged, both called the provider.
C7_Witness ==
  \E r \in Reqs, s \in Reqs :
    /\ r # s /\ rq[r].path = rq[s].path
    /\ rq[r].path \in Paths /\ cache[rq[r].path] = None
    /\ \A t \in {r, s} :
         /\ Has(rq[t], "get_miss") /\ Has(rq[t], "charge_ok") /\ Has(rq[t], "provider_ok")
         /\ rq[t].pc = "put"
         /\ rq[t].spent = rq[t].amount /\ rq[t].amount >= 1
    /\ rq[r].image # rq[s].image

\* C8: once the path handler has the bytes of a generated image, its answer
\* is 200 with those bytes whether the upload to the bucket resolves or
\* rejects; the q2 handler answers 200 whatever its uploads did.
C8_UploadFailureAbsorbed ==
  \A r \in Reqs :
    LET q == rq[r]
    IN  /\ (q.handler = "path" /\ Count(q, PutEvents) > 0)
           => /\ Done(q) /\ q.outcome = "ok"
              /\ q.resp = [status |-> 200, body |-> q.image]
              /\ q.image \in Bytes
              /\ Has(q, "charge_ok") /\ Has(q, "provider_ok")
        /\ (q.handler = "q2" /\ Done(q) /\ Count(q, PutEvents \cup {"fetch_fail"}) > 0)
           => (q.outcome = "ok" /\ q.resp.status = 200)

\* The upload was rejected, nothing is stored, the answer is 200.
C8_Witness ==
  \E r \in Reqs :
    /\ Done(rq[r]) /\ rq[r].handler = "path"
    /\ Has(rq[r], "put_fail")
    /\ cache[rq[r].path] = None
    /\ rq[r].resp = [status |-> 200, body |-> rq[r].image]

\* C9, as stated: the response of a successful generation is returned
\* before the upload is attempted.
C9_RespondBeforeUpload ==
  \A r \in Reqs :
    \A i \in 1..Len(rq[r].log) :
      rq[r].log[i] \in PutEvents => \E j \in 1..(i - 1) : rq[r].log[j] = "respond"

\* C9, amended: the upload is awaited first.  While the upload is pending
\* the caller has no response; the response is the step that follows the
\* outcome of the upload, and it is the last thing the request does.
C9_UploadBeforeRespond ==
  \A r \in Reqs :
    LET q == rq[r]
    IN  /\ q.pc \in {"put", "save"} => (q.resp = NoResponse /\ ~Has(q, "respond"))
        /\ \A i \in 1..Len(q.log) :
             q.log[i] \in PutEvents
               => /\ \A j \in 1..(i - 1) : q.log[j] # "respond"
                  /\ Done(q) => q.log[Len(q.log)] = "respond"
        /\ \A i \in 1..Len(q.log) : q.log[i] = "respond" => i = Len(q.log)

\* The path handler answered right after its upload.
C9_Witness ==
  \E r \in Reqs :
    LET q == rq[r]
    IN  /\ Done(q) /\ q.handler = "path" /\ q.outcome = "ok"
        /\ Len(q.log) >= 2
        /\ q.log[Len(q.log) - 1] = "put_ok"
        /\ q.log[Len(q.log)] = "respond"

\* C10, as stated: a request that starts after bytes were generated and
\* stored under its pathname returns exactly those bytes, is not charged
\* and does not call the provider.
C10_LaterRequestSameBytes ==
  \A r \in Reqs :
    LET q == rq[r]
    IN  (Done(q) /\ q.prior # {} /\ ~Has(q, "get_throw"))
          => /\ \A b \in q.prior : q.resp.body = b
             /\ Count(q, Paid) = 0
             /\ q.spent = 0

\* C10, amended: such a request is answered 200 from the bucket with the
\* bytes found under the pathname at its lookup, which are bytes that a
\* charged request generated and stored under that pathname (those of the
\* latest upload: a request that had found nothing before the first upload
\* may have replaced them with its own); it is not charged and does not
\* call the provider.
C10_LaterRequestFromCache ==
  \A r \in Reqs :
    LET q == rq[r]
    IN  (Done(q) /\ q.prior # {} /\ ~Has(q, "get_throw"))
          => /\ q.outcome = "cache_hit"
             /\ q.resp = [status |-> 200, body |-> q.seen]
             /\ q.seen \in persisted[q.path]
             /\ q.log = <<"get_hit", "respond">>
             /\ Count(q, Paid) = 0
             /\ q.spent = 0

\* A later request is served bytes other than the first upload's.
C10_Witness ==
  \E r \in Reqs :
    LET q == rq[r]
    IN  /\ Done(q) /\ q.outcome = "cache_hit"
        /\ q.prior # {} /\ q.resp.body \notin q.prior
        /\ q.spent = 0

\* Two pathnames denote one logical request when parseImagePath gives them
\* the same (prompt, size, quality) once the defaults are filled in.
SameLogicalRequest(k1, k2) ==
  parseImagePath(k1).ok /\ parseImagePath(k1) = parseImagePath(k2)

\* C11, as stated: two pathnames that denote the same logical request share
\* one bucket key, so that while an object is stored for one of them a
\* request for the other that would be served otherwise is answered from
\* the bucket and is neither charged nor sent to the provider.
C11_SameRequestSameKey ==
  \A r \in Reqs :
    LET q == rq[r]
    IN  Billable(q)
          => \A k \in Paths :
               (SameLogicalRequest(k, q.path) /\ cache[k] # None /\ ~Has(q, "put_ok"))
                 => /\ Count(q, Paid) = 0
                    /\ q.pc \notin {"charge", "provider", "resolve", "put"}
                    /\ (Done(q) /\ ~Has(q, "get_throw")) => q.outcome = "cache_hit"

\* The qualities and the sizes that have a price.
PricedQualities == {"low", "medium", "high", "auto"}
PricedSizes == {"1024x1024", "1024x1536", "1536x1024"}

\* C12, as stated: a request of the path handler whose quality is not one
\* of low, medium, high, auto, or whose size is not one of the enumerated
\* sizes, is turned away by validation: it never reaches ctx.charge or the
\* provider, and once it has found nothing in the bucket it ends with the
\* validation answer.
C12_InvalidRejected ==
  \A r \in Reqs :
    LET q == rq[r]
        pp == parseImagePath(q.path)
    IN  ( /\ Billable(q) /\ pp.ok
          /\ (pp.quality \notin PricedQualities \/ pp.size \notin PricedSizes) )
          => /\ Count(q, Paid) = 0
             /\ q.pc \notin {"charge", "provider", "resolve", "put"}
             /\ (Done(q) /\ Has(q, "get_miss")) => q.outcome = "validation"

\* C13: no caller's balance is ever below zero, whatever the order and the
\* interleaving of the requests: every charge is made with allowNegative =
\* false, and what a request has been charged was covered by the balance
\* at the time of its charge.
C13_BalanceNeverNegative ==
  /\ \A u \in Users : balance[u] >= 0
  /\ \A r \in Reqs : rq[r].spent >= 0 /\ rq[r].spent <= rq[r].ctxBalance

\* Two requests saw the same balance, which covers one of them only: one
\* was charged, the charge of the other was refused.
C13_Witness ==
  \E r \in Reqs, s \in Reqs :
    /\ r # s /\ rq[r].caller = rq[s].caller
    /\ Has(rq[r], "charge_ok") /\ Has(rq[s], "charge_declined")
    /\ rq[s].amount <= rq[s].ctxBalance
    /\ rq[r].amount + rq[s].amount > rq[s].ctxBalance
    /\ rq[s].ctxBalance = rq[r].ctxBalance
    /\ balance[rq[s].caller] < rq[s].amount

\* C14, as stated: once a pathname has an object in the bucket, no step
\* changes the bytes of that object or removes it.
C14_EntryNeverChanged ==
  [][\A k \in Paths : cache[k] # None => cache'[k] = cache[k]]_vars

\* C14, amended: an object is never removed, and its bytes are replaced
\* only by the upload of a request for the same pathname that had looked it
\* up, and found nothing, before the first object was stored; the new
\* bytes are the image that request was charged for.
C14_EntryReplacedOnlyByEarlierMiss ==
  [][\A k \in Paths :
       cache[k] # None
         => /\ cache'[k] # None
            /\ cache'[k] # cache[k]
                 => \E r \in Reqs :
                      /\ rq[r].pc = "put" /\ rq[r].path = k
                      /\ rq[r].prior = {} /\ Has(rq[r], "get_miss")
                      /\ Has(rq[r], "charge_ok")
                      /\ cache'[k] = rq[r].image
                      /\ rq'[r].pc = "done" /\ Has(rq'[r], "put_ok")]_vars

\* Two requests missed on one pathname and both uploaded: the object of the
\* first has been replaced by the object of the second.
C14_Witness ==
  \E k \in Paths :
    /\ Cardinality(persisted[k]) = 2
    /\ cache[k] \in persisted[k]
    /\ \E r \in Reqs :
         /\ rq[r].path = k /\ Done(rq[r]) /\ Has(rq[r], "put_ok")
         /\ rq[r].image = cache[k]

\* The (quality, size) pair has a price in the table, the quality being
\* taken in lower case.
Priced(a) == ToLowerCase(a.quality) \in PricedQualities /\ a.size \in PricedSizes

\* The exact sum of the three reported sub-costs, as [m, e] for m * 2^e.
ExactSum(ret) ==
  The({[m |-> NAdd(NAdd(NShl(ret.textInputCost.m, ret.textInputCost.e - e),
                        NShl(ret.imageInputCost.m, ret.imageInputCost.e - e)),
                   NShl(ret.imageOutputCost.m, ret.imageOutputCost.e - e)),
        e |-> e]
       : e \in {CHOOSE x \in {ret.textInputCost.e, ret.imageInputCost.e, ret.imageOutputCost.e} :
                  \A y \in {ret.textInputCost.e, ret.imageInputCost.e, ret.imageOutputCost.e} :
                    x <= y}})

\* The least whole number of cents that is not below the fee on the sum of
\* the three reported sub-costs, the sum and the products taken exactly:
\* with one tenth for the fee, and with the double that 0.1 denotes.
ExactCents(ret) ==
  The({CeilOf(NScale(sum.m, CentsPerDollar \div 10), sum.e) : sum \in {ExactSum(ret)}})
ExactCentsOfDoubleFee(ret) ==
  The({CeilOf(NScale(NMul(sum.m, FEE_PERCENTAGE_PER_IMAGE.m), CentsPerDollar),
              sum.e + FEE_PERCENTAGE_PER_IMAGE.e)
       : sum \in {ExactSum(ret)}})

\* C15, as stated: the totalCostInCents of every breakdown that
\* calculateImageGenerationCost returns is the ceiling, in cents, of the
\* fee applied to the sum of the three sub-costs of the same breakdown,
\* whichever of the two values is taken for the fee of 0.1.
C15_TotalIsExactCeiling ==
  (estimate.first.called /\ ~estimate.first.ret.threw)
    => estimate.first.ret.totalCostInCents
         \in {ExactCents(estimate.first.ret), ExactCentsOfDoubleFee(estimate.first.ret)}

\* The request of the worked example of the cost model.
CatRequest ==
  [prompt |-> "cat", size |-> "1024x1024", quality |-> "low",
   tokens |-> [inputImageTokens |-> 0, cachedInputTokens |-> 0]]

\* C16: for a (quality, size) pair that has a price in the table,
\* calculateImageGenerationCost returns a whole number of cents that is at
\* least 1; for prompt "cat", 1024x1024, low it counts 1 text token, an
\* image output cost of $0.011 and a positive number of cents.
C16_PricedAtLeastOneCent ==
  (estimate.first.called /\ Priced(estimate.args))
    => /\ ~estimate.first.ret.threw
       /\ estimate.first.ret.totalCostInCents \in Nat
       /\ estimate.first.ret.totalCostInCents >= 1
       /\ estimate.args = CatRequest
            => /\ estimate.first.ret.textInputTokens = 1
               /\ estimate.first.ret.imageOutputCost = DDivInt(11, 1000)
               /\ estimate.first.ret.totalCostInCents > 0

\* C16, witness: the cost of the cat request has been computed, and it is
\* one cent.
C16_Witness ==
  /\ estimate.args = CatRequest
  /\ estimate.first.called
  /\ ~estimate.first.ret.threw
  /\ estimate.first.ret.totalCostInCents = 1

C18_AbsentPairPricesAtZero ==
  (estimate.first.called /\ ~Priced(estimate.args))
    => /\ ~estimate.first.ret.threw
       /\ estimate.first.ret.imageOutputCost = Zero

\* A request to the quote endpoint that is under way.
Quoting(q) == q.pc # "idle" /\ q.handler = "path" /\ StartsWithCost(q.path)

\* C19: no step of a request to /cost... changes a balance or the bucket,
\* and such a request never waits for ctx.charge, for the provider or for
\* a put, and has charged, generated and stored nothing, whoever calls it.
C19_QuoteHasNoEffect ==
  [][\A r \in Reqs :
       Quoting(rq[r])
         => /\ balance' = balance
            /\ cache' = cache
            /\ persisted' = persisted
            /\ rq'[r].pc \in {"done", "idle"}
            /\ rq'[r].spent = 0
            /\ Count(rq'[r], ChargeEvents \cup ProviderEvents \cup PutEvents
                               \cup {"fetch_ok", "fetch_fail"}) = 0]_vars

\* C19, witness: a quote was answered with 200 to a caller who is not
\* registered and has no balance, and the bucket is empty as before.
C19_Witness ==
  \E r \in Reqs :
    /\ Quoting(rq[r])
    /\ rq[r].pc = "done" /\ rq[r].outcome = "quote" /\ rq[r].resp.status = 200
    /\ ~rq[r].ctxRegistered /\ balance[rq[r].caller] = 0
    /\ rq[r].amount >= 1

\* m occurs in body, letter for letter.
Carries(body, m) ==
  \E i \in 1..(Len(body) - Len(m) + 1) : SubSeq(body, i, i + Len(m) - 1) = m

\* C20: a request whose charge was refused (charged = false) has ended
\* with status 402 and a body that carries the message of the gate letter
\* for letter; it has made no call of the provider and stored nothing.
C20_DeclinedCarriesGateMessage ==
  \A r \in Reqs :
    Has(rq[r], "charge_declined")
      => /\ rq[r].pc = "done"
         /\ rq[r].outcome = "declined"
         /\ rq[r].resp.status = 402
         /\ Carries(rq[r].resp.body, rq[r].message)
         /\ rq[r].image = None
         /\ Count(rq[r], ProviderEvents \cup PutEvents \cup {"fetch_ok", "fetch_fail"}) = 0

\* C20, witness: the charge of a registered caller with funds was refused
\* and the request has been answered.
C20_Witness ==
  \E r \in Reqs :
    /\ Has(rq[r], "charge_declined")
    /\ rq[r].pc = "done"
    /\ rq[r].message = "User not found"
    /\ balance[rq[r].caller] >= rq[r].amount
    /\ rq[r].amount >= 1

\* What the collaborators of a request threw.
FaultEvents == {"get_throw", "charge_throw", "provider_throw"}

\* C21, as stated: a request in which the lookup of the bucket, the
\* estimation of the cost, the charge or the provider threw has been
\* answered with the internal failure (500), and no exception leaves a
\* handler without a response.
C21_EveryFaultIsSurfaced ==
  \A r \in Reqs :
    Done(rq[r])
      => /\ rq[r].outcome # "fault"
         /\ Count(rq[r], FaultEvents) > 0
              => (rq[r].outcome = "internal" /\ rq[r].resp.status = 500)

\* C22: for the same prompt, size and token counts,
\* calculateImageGenerationCost with quality auto returns the
\* imageOutputCost and the totalCostInCents it returns with quality high
\* (and throws when it throws with high).
C22_AutoPricedAsHigh ==
  estimate.asHigh.called
    => /\ estimate.first.ret.threw = estimate.asHigh.ret.threw
       /\ ~estimate.first.ret.threw
            => /\ estimate.first.ret.imageOutputCost = estimate.asHigh.ret.imageOutputCost
               /\ estimate.first.ret.totalCostInCents = estimate.asHigh.ret.totalCostInCents

\* C22, witness: auto and high were both priced for cat at 1024x1024, at
\* the price of high ($0.167), which is not the price of any other tier.
C22_Witness ==
  /\ estimate.asHigh.called
  /\ estimate.args.prompt = "cat" /\ estimate.args.size = "1024x1024"
  /\ ~estimate.first.ret.threw
  /\ estimate.first.ret.imageOutputCost = DDivInt(167, 1000)
  /\ estimate.first.ret.totalCostInCents = 2

\* C23: no step raises a balance, and a step that changes a balance is the
\* successful charge of one request, which takes exactly the amount that
\* request computed from the balance of its caller; every other step of a
\* handler leaves the balances as they are.
C23_OnlyChargeDeducts ==
  [][/\ \A u \in Users : balance'[u] <= balance[u]
     /\ balance' # balance
          => \E r \in Reqs :
               /\ rq[r].pc = "charge"
               /\ rq'[r].log = Append(rq[r].log, "charge_ok")
               /\ balance' = [balance EXCEPT ![rq[r].caller] = @ - rq[r].amount]
               /\ rq'[r].spent = rq[r].spent + rq[r].amount]_vars

\* C23, witness: a request was charged, the provider answered with a
\* reference that could not be fetched, and the balance of the caller is
\* what it was at the start less the amount.
C23_Witness ==
  \E r \in Reqs :
    /\ Done(rq[r])
    /\ Has(rq[r], "charge_ok") /\ Has(rq[r], "fetch_fail")
    /\ rq[r].amount >= 1
    /\ balance[rq[r].caller] = rq[r].ctxBalance - rq[r].amount

\* A request of a registered caller whose balance, as the handler saw it,
\* is positive and below the cost the handler computed.
ShortOfCost(q) ==
  /\ q.pc # "idle" /\ ~Quoting(q)
  /\ q.ctxRegistered /\ q.ctxBalance > 0 /\ q.ctxBalance < q.amount

\* C24: such a request was not turned away by the balance check: it is at
\* its call of ctx.charge or past it, and unless that call threw its
\* outcome is declined (402), not payment required; it takes nothing from
\* the balance and does not call the provider.
C24_ShortBalanceIsDeclined ==
  \A r \in Reqs :
    ShortOfCost(rq[r])
      => /\ rq[r].pc \in {"charge", "done"}
         /\ rq[r].outcome # "payment_required"
         /\ Done(rq[r]) => Count(rq[r], ChargeEvents) = 1
         /\ (Done(rq[r]) /\ ~Has(rq[r], "charge_throw"))
              => /\ Has(rq[r], "charge_declined")
                 /\ rq[r].outcome = "declined"
                 /\ rq[r].resp.status = 402
         /\ Count(rq[r], ProviderEvents) = 0
         /\ rq[r].spent = 0
         /\ balance[rq[r].caller] = rq[r].ctxBalance

\* C24, witness: the path handler has answered 402 to a registered caller
\* with a balance of 1 or more, short of the cost of the image.
C24_Witness ==
  \E r \in Reqs :
    /\ ShortOfCost(rq[r]) /\ Done(rq[r])
    /\ rq[r].handler = "path"
    /\ rq[r].outcome = "declined"
    /\ rq[r].message = "Insufficient balance"

\* The outcomes of a request that stores nothing.
OutcomesWithoutPut ==
  {"cache_hit", "payment_required", "method_not_allowed", "validation", "declined",
   "provider_failure", "quote", "quote_invalid"}

Unresolved(q) ==
  /\ Has(q, "provider_ok")
  /\ \/ Has(q, "fetch_fail")
     \/ q.handler = "path" /\ q.pc \notin {"resolve", "put"} /\ q.image \notin Bytes

Malformed(q) ==
  /\ q.pc # "idle" /\ q.handler = "path" /\ q.method = "GET"
  /\ q.ctxRegistered /\ q.ctxBalance > 0
  /\ ~StartsWithCost(q.path)
  /\ ~DecodeFails(q.path) /\ ~parseImagePath(q.path).ok

IsCount(s) ==
  /\ s # ""
  /\ \A i \in 1..Len(s) : IsDigit(CharAt(s, i))
  /\ DecimalValue(s, 1, Len(s)) \in MIN_N..MAX_N

\* A GET of a query handler by a registered caller with a positive balance
\* whose prompt is missing, whose size or quality is not one of the
\* handlers', or whose n is given and is not a number in 1..4.
InvalidQuery(q) ==
  /\ q.pc # "idle" /\ q.handler \in QueryHandlers /\ q.method = "GET"
  /\ q.ctxRegistered /\ q.ctxBalance > 0
  /\ \/ q.query.prompt = ""
     \/ QuerySize(q.query) \notin QUERY_SIZES
     \/ QueryQuality(q.query) \notin QUERY_QUALITIES
     \/ q.query.nParam # "" /\ ~IsCount(q.query.nParam)

\* C28: such a request is over with a 400 answer, no cost was computed
\* for it, and it has not called ctx.charge or the provider.
C28_InvalidQueryIs400 ==
  \A r \in Reqs :
    LET q == rq[r]
    IN  InvalidQuery(q)
          => /\ Done(q) /\ q.outcome = "validation" /\ q.resp.status = 400
             /\ q.amount = 0 /\ q.spent = 0
             /\ Count(q, ChargeEvents \cup ProviderEvents) = 0
             /\ balance[q.caller] = q.ctxBalance

\* The least whole number of billionths of a dollar that is not below the
\* double x.
NanoDollars(x) == The({CeilOf(NMul(u.m, NOfInt(1000000000)), u.e) : u \in {x}})

\* x is the price of count tokens at rate billionths of a dollar a token,
\* to the precision of a double: less than one billionth away.
PricedAt(x, count, rate) ==
  The({n = count * rate \/ n = count * rate + 1 : n \in {NanoDollars(x)}})

\* The prompts that a call is compared with: 0, 3 and 5 characters.
OtherPrompts == {"", "cat", "corgi"}

\* C29: in the breakdown that calculateImageGenerationCost returns, with a
\* cached-token count above 0 textInputCost is that count at $1.25 per
\* million tokens, and it is the textInputCost of the same call with any
\* other prompt; with a count of 0 it is the least number of tokens that
\* covers the prompt at four characters a token, at $5.00 per million.
C29_TextInputCost ==
  (estimate.first.called /\ ~estimate.first.ret.threw)
    => LET a == estimate.args
           ret == estimate.first.ret
           cached == a.tokens.cachedInputTokens
           tokens == CHOOSE k \in 0..Len(a.prompt) :
                       /\ 4 * k >= Len(a.prompt)
                       /\ \A j \in 0..(k - 1) : 4 * j < Len(a.prompt)
       IN  /\ ret.textInputTokens = tokens
           /\ IF cached > 0
              THEN /\ PricedAt(ret.textInputCost, cached, 1250)
                   /\ \A p \in OtherPrompts :
                        Call([a EXCEPT !.prompt = p]).textInputCost = ret.textInputCost
              ELSE PricedAt(ret.textInputCost, tokens, 5000)

\* The call for the prompt cat with 8000 cached tokens has returned one
\* cent of text input for one token of prompt.
C29_Witness ==
  /\ estimate.first.called /\ ~estimate.first.ret.threw
  /\ estimate.args.prompt = "cat"
  /\ estimate.args.tokens.cachedInputTokens = 8000
  /\ estimate.first.ret.textInputTokens = 1
  /\ NanoDollars(estimate.first.ret.textInputCost) \in {10000000, 10000001}

\* A request with another method than GET that found nothing under its
\* key; the query handlers look nothing up.
NotGet(q) ==
  /\ q.pc # "idle" /\ q.method # "GET"
  /\ q.handler = "path" => Has(q, "get_miss")

\* The answers that C30 names: 405 for a caller with funds, the payment
\* link for the others.
TurnedAway(q) ==
  IF q.ctxRegistered /\ q.ctxBalance > 0
  THEN q.outcome = "method_not_allowed" /\ q.resp.status = 405
  ELSE q.outcome = "payment_required" /\ q.resp.status \in {302, 402}

\* Nothing was charged, generated or stored for the request.
NoEffect(q) ==
  /\ Count(q, ChargeEvents \cup ProviderEvents \cup PutEvents) = 0
  /\ q.spent = 0
  /\ balance[q.caller] = q.ctxBalance
  /\ q.handler = "path" => persisted[q.path] = q.prior

\* C30, as stated: a request that is not a GET and missed in the bucket is
\* over without a charge, a provider call or a put, with 405 for a caller
\* with funds and the payment link for the others.
C30_NotGetIsTurnedAway ==
  \A r \in Reqs :
    LET q == rq[r]
    IN  NotGet(q) => (Done(q) /\ NoEffect(q) /\ TurnedAway(q))

\* C30, amended: a request that is not a GET never waits for ctx.charge,
\* the provider or a put, and has charged, generated and stored nothing.
\* Once it has missed in the bucket it is over: outside the quote endpoint
\* with 405 for a caller with funds and the payment link for the others,
\* under /cost with the answer of the quote endpoint, whatever the caller.
C30_NotGetHasNoEffect ==
  \A r \in Reqs :
    LET q == rq[r]
    IN  /\ (q.pc # "idle" /\ q.method # "GET")
           => (q.pc \in {"get", "done"} /\ NoEffect(q))
        /\ NotGet(q)
           => /\ Done(q)
              /\ IF Quoting(q)
                 THEN q.outcome \in {"quote", "quote_invalid", "fault"}
                 ELSE TurnedAway(q)

\* A POST of /image/cat by a caller with funds has been answered 405.
C30_Witness ==
  \E r \in Reqs :
    LET q == rq[r]
    IN  /\ NotGet(q) /\ Done(q) /\ q.handler = "path" /\ ~Quoting(q)
        /\ q.path = <<"image", "cat">>
        /\ q.ctxRegistered /\ q.ctxBalance > 0
        /\ q.outcome = "method_not_allowed" /\ q.resp.status = 405
        /\ NoEffect(q)

\* C31: a request of the path handler that waits for ctx.charge, or has
\* called it, has a parsed prompt that is not empty and an amount of at
\* least one cent, also when its quality and size have no price.
C31_ChargeAmountAtLeastOneCent ==
  \A r \in Reqs :
    LET q == rq[r]
    IN  (q.handler = "path" /\ (q.pc = "charge" \/ Count(q, ChargeEvents) > 0))
          => /\ parseImagePath(q.path).ok
             /\ Len(parseImagePath(q.path).prompt) >= 1
             /\ q.amount >= 1

\* GET /image/cat/1024x1024/ultra has no price for its image and waits for
\* a charge of one cent.
C31_Witness ==
  \E r \in Reqs :
    LET q == rq[r]
    IN  /\ q.handler = "path" /\ q.pc = "charge"
        /\ q.path = <<"image", "cat", "1024x1024", "ultra">>
        /\ OutputCost(parseImagePath(q.path).quality, parseImagePath(q.path).size)
             = NumberValue(Zero)
        /\ q.amount = 1

\* The pathname parses as an image path: its first segment is image and
\* its prompt is not empty.
ImagePath(path) ==
  /\ Len(path) >= 2 /\ path[1] = "image" /\ path[2] # ""
  /\ parseImagePath(path).ok

ImageOf(path) == <<"image">> \o Tail(path)
CostOf(path) == <<"cost">> \o Tail(path)

\* The request q with another pathname, as it leaves the bucket lookup
\* that found nothing.
Missed(q, path) ==
  [Idle EXCEPT !.handler = "path", !.caller = q.caller, !.method = "GET",
               !.path = path, !.ctxRegistered = TRUE, !.ctxBalance = MaxBalance,
               !.log = <<"get_miss">>]

\* C33: the totalCents of a quote that was given for /cost/<prompt>... is
\* the amount with which a GET of /image/<prompt>... by a caller with funds
\* comes to wait for ctx.charge, and the amount with which a request of
\* the path handler waits for ctx.charge is the totalCents of the quote
\* for its pathname under /cost.
C33_QuoteIsChargeAmount ==
  \A r \in Reqs :
    LET q == rq[r]
    IN  /\ (Quoting(q) /\ Done(q) /\ q.outcome = "quote")
           => LET g == PathAfterMiss(Missed(q, ImageOf(q.path)))
              IN  g.pc = "charge" /\ g.amount = q.amount
        /\ (q.handler = "path" /\ q.pc = "charge")
           => LET c == PathAfterMiss(Missed(q, CostOf(q.path)))
              IN  c.outcome = "quote" /\ c.amount = q.amount

\* The quote for /cost/cat/1024x1536/high has been given: 3 cents.
C33_Witness ==
  \E r \in Reqs :
    LET q == rq[r]
    IN  /\ Quoting(q) /\ Done(q) /\ q.outcome = "quote"
        /\ q.path = <<"cost", "cat", "1024x1536", "high">>
        /\ q.amount = 3
        /\ PathAfterMiss(Missed(q, ImageOf(q.path))).amount = 3

\* The outcomes that C34 names: cache hit, quote, payment-required,
\* method-not-allowed, validation failure (of a request and of a quote),
\* charge declined, provider failure, internal failure (of the request and
\* of the processing of the image) and successful response.
TerminalOutcomes ==
  {"cache_hit", "quote", "payment_required", "method_not_allowed", "validation",
   "quote_invalid", "declined", "provider_failure", "internal", "processing_failure",
   "ok"}

\* Every request that has come in is over at some time.
EveryRequestEnds ==
  \A r \in Reqs : (rq[r].pc # "idle") ~> Done(rq[r])

\* C34: with every collaborator call settling, every request is over at
\* some time, and a request that is over has one of the outcomes that the
\* statement names and was given exactly one response.
C34_EndsInOneOutcomeWithOneResponse ==
  /\ EveryRequestEnds
  /\ [](\A r \in Reqs :
          Done(rq[r])
            => /\ rq[r].outcome \in TerminalOutcomes
               /\ Count(rq[r], {"respond"}) = 1
               /\ rq[r].resp.status # 0)

====
